---- MODULE Spec2Model ----
(***************************************************************************)
(* The LLM bulk-extraction core of cpaor-data-viz-dashboard: the response  *)
(* sanitizer (_postprocess_json_string), the two-attempt decoder and the   *)
(* bounded-concurrency bulk runner (call_chatgpt_async/call_chatgpt_bulk), *)
(* in the ACAPS pipeline (generate_predictions.py) and the OHCHR pipeline  *)
(* (openai_async.py).                                                      *)
(*                                                                         *)
(* A text is a sequence of characters; a character is a one-character      *)
(* string, except "BEL", which stands for the control character U+0007,   *)
(* and "BQ", which stands for the backquote U+0060.                        *)
(***************************************************************************)
EXTENDS Integers, Sequences, FiniteSets, TLC

\* ------------------------------------------------------------------ bounds
MaxBatch == 3   \* longest batch of prompts
MaxRate == 2    \* largest rate_limit
MaxLen == 3     \* longest raw text given to the sanitizer on its own

\* -------------------------------------------------------------- characters
\* Characters matched by the regular expression class \s.
WS == {" ", "\n", "\t", "\r"}

\* Characters with a code point below 0x20.
Ctl == {"\n", "\t", "\r", "BEL"}

\* The Markdown code-fence marker: three backquotes.
Fence == <<"BQ", "BQ", "BQ">>

\* ------------------------------------------------------- string primitives
\* s[i..] (1-based), the empty text when i > Len(s).
Drop(s, i) == SubSeq(s, i, Len(s))

\* Whether old occurs in s at position i (1-based).
OccursAt(s, old, i) ==
    /\ i + Len(old) - 1 <= Len(s)
    /\ SubSeq(s, i, i + Len(old) - 1) = old

\* str.replace(old, new) for a non-empty old: leftmost, non-overlapping.
RECURSIVE ReplaceFrom(_, _, _, _)
ReplaceFrom(s, old, new, i) ==
    IF i > Len(s) THEN <<>>
    ELSE IF OccursAt(s, old, i)
         THEN new \o ReplaceFrom(s, old, new, i + Len(old))
         ELSE <<s[i]>> \o ReplaceFrom(s, old, new, i + 1)

Replace(s, old, new) == ReplaceFrom(s, old, new, 1)

\* str.find(c) for a single character: 0-based index, -1 when absent.
RECURSIVE FindFrom(_, _, _)
FindFrom(s, c, i) ==
    IF i > Len(s) THEN -1
    ELSE IF s[i] = c THEN i - 1
    ELSE FindFrom(s, c, i + 1)

Find(s, c) == FindFrom(s, c, 1)

\* str.strip(): leading and trailing whitespace removed.
RECURSIVE LStrip(_)
LStrip(s) == IF s # <<>> /\ Head(s) \in WS THEN LStrip(Tail(s)) ELSE s

RECURSIVE RStrip(_)
RStrip(s) ==
    IF s # <<>> /\ s[Len(s)] \in WS THEN RStrip(SubSeq(s, 1, Len(s) - 1)) ELSE s

Strip(s) == RStrip(LStrip(s))

\* Length of the run of whitespace of s that starts at position i.
RECURSIVE WsRun(_, _)
WsRun(s, i) == IF i <= Len(s) /\ s[i] \in WS THEN 1 + WsRun(s, i + 1) ELSE 0

\* re.sub(r"\s+", " ", s): every run of whitespace becomes one space.
RECURSIVE CollapseFrom(_, _)
CollapseFrom(s, i) ==
    IF i > Len(s) THEN <<>>
    ELSE IF s[i] \in WS
         THEN <<" ">> \o CollapseFrom(s, i + WsRun(s, i))
         ELSE <<s[i]>> \o CollapseFrom(s, i + 1)

CollapseWhitespace(s) == CollapseFrom(s, 1)

\* re.search(open [^close]* close, s): the leftmost match is the first open
\* and the first close after it; None when no close follows the first open.
NoMatch == [found |-> FALSE, group0 |-> <<>>]

SearchSpan(s, open, close) ==
    LET p == Find(s, open) IN
    IF p = -1 THEN NoMatch
    ELSE LET q == Find(Drop(s, p + 2), close) IN
         IF q = -1 THEN NoMatch
         ELSE [found |-> TRUE, group0 |-> SubSeq(s, p + 1, p + 2 + q)]

\* A call's outcome: a returned text, or an exception raised.
Returned(v) == [raised |-> FALSE, value |-> v]
Raised == [raised |-> TRUE, value |-> <<>>]

\* ------------------------------------------------------------- sanitizer
\* re.search(...).group(0): AttributeError when the search gave None.
Group0(m) == IF m.found THEN Returned(m.group0) ELSE Raised

\* Faulty variant of _extract_and_evaluate_first: the patterns are greedy
\* (.* for [^}]* and [^\]]*), so the match runs to the last closing bracket.
RECURSIVE FindLast(_, _)
FindLast(s, c) ==
    IF s = <<>> THEN -1
    ELSE IF s[Len(s)] = c THEN Len(s) - 1
    ELSE FindLast(SubSeq(s, 1, Len(s) - 1), c)

SearchGreedy(s, open, close) ==
    LET p == Find(s, open)
        q == FindLast(s, close)
    IN  IF p = -1 \/ q <= p THEN NoMatch
        ELSE [found |-> TRUE, group0 |-> SubSeq(s, p + 1, q + 1)]

ExtractGreedy(string) ==
    LET index_curly == Find(string, "{")
        index_square == Find(string, "[")
    IN  IF (0 <= index_curly /\ index_curly < index_square)
            \/ (index_curly # -1 /\ index_square = -1)
        THEN Group0(SearchGreedy(string, "{", "}"))
        ELSE IF (0 <= index_square /\ index_square < index_curly)
                \/ (index_square # -1 /\ index_curly = -1)
        THEN Group0(SearchGreedy(string, "[", "]"))
        ELSE Returned(string)

_extract_and_evaluate_first(string) ==
    LET index_curly == Find(string, "{")
        index_square == Find(string, "[")
    IN  IF (0 <= index_curly /\ index_curly < index_square)
            \/ (index_curly # -1 /\ index_square = -1)
        THEN Group0(SearchSpan(string, "{", "}"))
        ELSE IF (0 <= index_square /\ index_square < index_curly)
                \/ (index_square # -1 /\ index_curly = -1)
        THEN Group0(SearchSpan(string, "[", "]"))
        ELSE Returned(string)

\* re.sub(r"\"(\s*)\"", '"<space>",', s): a quote, whitespace, a quote.
RECURSIVE AddCommaFrom(_, _)
AddCommaFrom(s, i) ==
    IF i > Len(s) THEN <<>>
    ELSE LET w == WsRun(s, i + 1) IN
         IF s[i] = "\"" /\ i + w + 1 <= Len(s) /\ s[i + w + 1] = "\""
         THEN <<"\"">> \o SubSeq(s, i + 1, i + w) \o <<"\"", ",">>
                  \o AddCommaFrom(s, i + w + 2)
         ELSE <<s[i]>> \o AddCommaFrom(s, i + 1)

_add_comma_between_quotes(json_string) == AddCommaFrom(json_string, 1)

_sanitize_string(value) == SelectSeq(value, LAMBDA char : char \notin Ctl)

\* The text the ACAPS sanitizer hands to the bracket extraction.
AcapsCleaned(s) ==
    LET s1 == Replace(s, Fence, <<>>)
        s2 == Replace(s1, <<"j", "s", "o", "n">>, <<>>)
        s3 == Replace(s2, <<"\n", "{">>, <<"{">>)
        s4 == Replace(s3, <<"\n">>, <<" ">>)
        s5 == Replace(s4, <<"\t">>, <<" ">>)
        s6 == Replace(s5, <<"\r">>, <<" ">>)
        s7 == Replace(s6, <<"}", "\n">>, <<"}">>)
        s8 == Replace(s7, <<"\\", "x", "a", "0">>,
                          <<"\\", "u", "0", "0", "A", "0">>)
        s9 == Strip(CollapseWhitespace(s8))
    IN  _sanitize_string(_add_comma_between_quotes(s9))

AcapsPostprocess(s) == _extract_and_evaluate_first(AcapsCleaned(s))

\* re.sub(r",(\s*[}\]])", r"\1", s): a comma before a closing bracket goes.
RECURSIVE DropTrailingCommas(_, _)
DropTrailingCommas(s, i) ==
    IF i > Len(s) THEN <<>>
    ELSE LET w == WsRun(s, i + 1) IN
         IF s[i] = "," /\ i + w + 1 <= Len(s) /\ s[i + w + 1] \in {"}", "]"}
         THEN SubSeq(s, i + 1, i + w + 1) \o DropTrailingCommas(s, i + w + 2)
         ELSE <<s[i]>> \o DropTrailingCommas(s, i + 1)

\* The text the OHCHR sanitizer hands to the bracket extraction.
OhchrCleaned(s) ==
    LET s0 == DropTrailingCommas(s, 1)
        s1 == Replace(s0, Fence, <<>>)
        s2 == Replace(s1, <<"j", "s", "o", "n">>, <<>>)
        s3 == Replace(s2, <<"\n", "{">>, <<"{">>)
        s4 == Replace(s3, <<"}", "\n">>, <<"}">>)
        s5 == Replace(s4, <<"\n">>, <<" ">>)
        s6 == Replace(s5, <<"\t">>, <<" ">>)
        s7 == Replace(s6, <<"\\", "x", "a", "0">>,
                          <<"\\", "u", "0", "0", "A", "0">>)
    IN  Strip(s7)

OhchrPostprocess(s) == _extract_and_evaluate_first(OhchrCleaned(s))

\* _postprocess_json_string of the given pipeline.
_postprocess_json_string(pipeline, s) ==
    IF pipeline = "acaps" THEN AcapsPostprocess(s) ELSE OhchrPostprocess(s)

\* --------------------------------------------------------------- decoder
\* A decoded value is [type, repr]: the name of its Python type and its
\* canonical text (elements separated by ", ", strings in single quotes, a
\* set's elements sorted).  The parsers below are exact
\* for texts over brackets, quotes, comma, colon, blanks, digits and letters
\* that are no string prefix and no part of a number: no backslash escapes,
\* signs, parentheses, floats or string prefixes.
Digits == {"0", "1", "2", "3", "4", "5", "6", "7", "8", "9"}

Letters ==
    {"a", "b", "c", "d", "e", "f", "g", "h", "i", "j", "k", "l", "m", "n",
     "o", "p", "q", "r", "s", "t", "u", "v", "w", "x", "y", "z",
     "A", "B", "C", "D", "E", "F", "G", "H", "I", "J", "K", "L", "M", "N",
     "O", "P", "Q", "R", "S", "T", "U", "V", "W", "X", "Y", "Z", "_"}

Value(type, repr) == [type |-> type, repr |-> repr]

\* A parse: the value read and the position after it, or a failure.
Parsed(type, repr, next) ==
    [ok |-> TRUE, type |-> type, repr |-> repr, next |-> next]
Fail == [ok |-> FALSE, type |-> "", repr |-> <<>>, next |-> 0]

SkipWs(s, i) == i + WsRun(s, i)

\* Length of the run of characters of set cs that starts at position i.
RECURSIVE Run(_, _, _)
Run(s, cs, i) == IF i <= Len(s) /\ s[i] \in cs THEN 1 + Run(s, cs, i + 1) ELSE 0

\* First position >= i at which pat occurs in s, 0 when there is none.
RECURSIVE IndexOf(_, _, _)
IndexOf(s, pat, i) ==
    IF i + Len(pat) - 1 > Len(s) THEN 0
    ELSE IF OccursAt(s, pat, i) THEN i
    ELSE IndexOf(s, pat, i + 1)

\* The items' texts joined by sep.
RECURSIVE Join(_, _)
Join(items, sep) ==
    IF items = <<>> THEN <<>>
    ELSE IF Len(items) = 1 THEN items[1]
    ELSE items[1] \o sep \o Join(Tail(items), sep)

CommaSp == <<",", " ">>

StripZeros(tok) ==
    LET z == Run(tok, {"0"}, 1) IN
    IF z = Len(tok) THEN <<"0">> ELSE Drop(tok, z + 1)

\* Values that can be a set element or a dict key.
Hashable(v) == v.type \in {"int", "str", "NoneType", "bool", "tuple"}

\* The elements with later duplicates dropped.
RECURSIVE Dedupe(_)
Dedupe(items) ==
    IF items = <<>> THEN <<>>
    ELSE LET rest == Dedupe(SubSeq(items, 1, Len(items) - 1))
             last == items[Len(items)]
         IN  IF \E k \in 1..Len(rest) : rest[k] = last
             THEN rest ELSE Append(rest, last)

\* A dict's pairs <<key, value>> with a repeated key keeping its first
\* position and its last value.
RECURSIVE DictPairs(_)
DictPairs(pairs) ==
    IF pairs = <<>> THEN <<>>
    ELSE LET rest == DictPairs(SubSeq(pairs, 1, Len(pairs) - 1))
             last == pairs[Len(pairs)]
         IN  IF \E k \in 1..Len(rest) : rest[k][1] = last[1]
             THEN [k \in 1..Len(rest) |->
                      IF rest[k][1] = last[1] THEN last ELSE rest[k]]
             ELSE Append(rest, last)

ListRepr(items) ==
    <<"[">> \o Join([k \in 1..Len(items) |-> items[k].repr], CommaSp) \o <<"]">>
TupleRepr(items) ==
    <<"(">> \o Join([k \in 1..Len(items) |-> items[k].repr], CommaSp) \o <<")">>
\* A fixed order of the characters, to write a set's elements in one order.
CharOrder ==
    <<" ", "\n", "\t", "\r", "BEL", "BQ", "\"", "'", ",", ":", "[", "]", "{",
      "}", "\\", "(", ")", "0", "1", "2", "3", "4", "5", "6", "7", "8", "9",
      "A", "B", "C", "D", "E", "F", "G", "H", "I", "J", "K", "L", "M", "N",
      "O", "P", "Q", "R", "S", "T", "U", "V", "W", "X", "Y", "Z", "_",
      "a", "b", "c", "d", "e", "f", "g", "h", "i", "j", "k", "l", "m", "n",
      "o", "p", "q", "r", "s", "t", "u", "v", "w", "x", "y", "z">>

Rank(c) == CHOOSE k \in 1..Len(CharOrder) : CharOrder[k] = c

\* Lexicographic order of two texts.
RECURSIVE TextLess(_, _)
TextLess(a, b) ==
    IF b = <<>> THEN FALSE
    ELSE IF a = <<>> THEN TRUE
    ELSE IF a[1] = b[1] THEN TextLess(Tail(a), Tail(b))
    ELSE Rank(a[1]) < Rank(b[1])

\* The values sorted by their texts.
RECURSIVE SortValues(_)
SortValues(items) ==
    IF items = <<>> THEN <<>>
    ELSE LET m == CHOOSE k \in 1..Len(items) :
                      \A l \in 1..Len(items) : ~TextLess(items[l].repr, items[k].repr)
         IN  <<items[m]>> \o SortValues(SubSeq(items, 1, m - 1)
                                            \o SubSeq(items, m + 1, Len(items)))

SetRepr(items) ==
    LET d == SortValues(Dedupe(items)) IN
    <<"{">> \o Join([k \in 1..Len(d) |-> d[k].repr], CommaSp) \o <<"}">>
DictRepr(pairs) ==
    LET d == DictPairs(pairs) IN
    <<"{">> \o Join([k \in 1..Len(d) |->
                       d[k][1].repr \o <<":", " ">> \o d[k][2].repr], CommaSp)
            \o <<"}">>
StrRepr(content) == <<"'">> \o content \o <<"'">>


\* One string literal of the Python grammar at position i (a quote): triple
\* quoted when the quote is tripled, else up to the next quote on the line.
PyStringLiteral(s, i) ==
    LET q == s[i]
        triple == <<q, q, q>>
    IN  IF OccursAt(s, triple, i)
        THEN LET j == IndexOf(s, triple, i + 3) IN
             IF j = 0 THEN Fail
             ELSE Parsed("str", SubSeq(s, i + 3, j - 1), j + 3)
        ELSE LET j == IndexOf(s, <<q>>, i + 1) IN
             IF j = 0 \/ \E k \in (i + 1)..(j - 1) : s[k] \in {"\n", "\r"}
             THEN Fail
             ELSE Parsed("str", SubSeq(s, i + 1, j - 1), j + 1)

\* Adjacent string literals are one string (implicit concatenation).
RECURSIVE PyStrings(_, _, _)
PyStrings(s, i, acc) ==
    LET lit == PyStringLiteral(s, i) IN
    IF ~lit.ok THEN Fail
    ELSE LET k == SkipWs(s, lit.next) IN
         IF k <= Len(s) /\ s[k] \in {"\"", "'"}
         THEN PyStrings(s, k, acc \o lit.repr)
         ELSE Parsed("str", StrRepr(acc \o lit.repr), lit.next)

\* A decimal integer: leading zeros only when every digit is zero.
PyNumber(s, i) ==
    LET n == Run(s, Digits, i)
        tok == SubSeq(s, i, i + n - 1)
    IN  IF (i + n <= Len(s) /\ s[i + n] \in Letters)
           \/ (tok[1] = "0" /\ StripZeros(tok) # <<"0">>)
        THEN Fail
        ELSE Parsed("int", StripZeros(tok), i + n)

\* A name: only None, True and False are literals.
PyName(s, i) ==
    LET n == Run(s, Letters \cup Digits, i)
        tok == SubSeq(s, i, i + n - 1)
    IN  IF tok = <<"N", "o", "n", "e">> THEN Parsed("NoneType", tok, i + n)
        ELSE IF tok \in {<<"T", "r", "u", "e">>, <<"F", "a", "l", "s", "e">>}
        THEN Parsed("bool", tok, i + n)
        ELSE Fail

RECURSIVE PyValue(_, _)
RECURSIVE PyElems(_, _, _, _)
RECURSIVE PyPairs(_, _, _)

\* The elements up to the closing bracket; a trailing comma is allowed.
PyElems(s, i, acc, close) ==
    LET j == SkipWs(s, i) IN
    IF j > Len(s) THEN [ok |-> FALSE, items |-> <<>>, next |-> 0]
    ELSE IF s[j] = close THEN [ok |-> TRUE, items |-> acc, next |-> j + 1]
    ELSE LET v == PyValue(s, j)
             k == SkipWs(s, v.next)
         IN  IF ~v.ok \/ k > Len(s) THEN [ok |-> FALSE, items |-> <<>>, next |-> 0]
             ELSE IF s[k] = ","
             THEN PyElems(s, k + 1, Append(acc, Value(v.type, v.repr)), close)
             ELSE IF s[k] = close
             THEN [ok |-> TRUE, items |-> Append(acc, Value(v.type, v.repr)),
                   next |-> k + 1]
             ELSE [ok |-> FALSE, items |-> <<>>, next |-> 0]

\* The key: value pairs up to the closing brace.
PyPairs(s, i, acc) ==
    LET j == SkipWs(s, i) IN
    IF j > Len(s) THEN [ok |-> FALSE, items |-> <<>>, next |-> 0]
    ELSE IF s[j] = "}" THEN [ok |-> TRUE, items |-> acc, next |-> j + 1]
    ELSE LET key == PyValue(s, j)
             c == SkipWs(s, key.next)
         IN  IF ~key.ok \/ c > Len(s) \/ s[c] # ":"
             THEN [ok |-> FALSE, items |-> <<>>, next |-> 0]
             ELSE LET v == PyValue(s, c + 1)
                      k == SkipWs(s, v.next)
                      pair == <<Value(key.type, key.repr), Value(v.type, v.repr)>>
                  IN  IF ~v.ok \/ k > Len(s)
                      THEN [ok |-> FALSE, items |-> <<>>, next |-> 0]
                      ELSE IF s[k] = "," THEN PyPairs(s, k + 1, Append(acc, pair))
                      ELSE IF s[k] = "}"
                      THEN [ok |-> TRUE, items |-> Append(acc, pair), next |-> k + 1]
                      ELSE [ok |-> FALSE, items |-> <<>>, next |-> 0]

\* After "{": an empty dict, a dict (a colon follows the first value) or a
\* set; unhashable keys and elements raise TypeError.
PyBrace(s, i) ==
    LET j == SkipWs(s, i) IN
    IF j > Len(s) THEN Fail
    ELSE IF s[j] = "}" THEN Parsed("dict", <<"{", "}">>, j + 1)
    ELSE LET first == PyValue(s, j)
             c == SkipWs(s, first.next)
         IN  IF ~first.ok \/ c > Len(s) THEN Fail
             ELSE IF s[c] = ":"
             THEN LET ps == PyPairs(s, j, <<>>) IN
                  IF ps.ok /\ \A k \in 1..Len(ps.items) : Hashable(ps.items[k][1])
                  THEN Parsed("dict", DictRepr(ps.items), ps.next)
                  ELSE Fail
             ELSE LET es == PyElems(s, j, <<>>, "}") IN
                  IF es.ok /\ \A k \in 1..Len(es.items) : Hashable(es.items[k])
                  THEN Parsed("set", SetRepr(es.items), es.next)
                  ELSE Fail

PyValue(s, i) ==
    LET j == SkipWs(s, i) IN
    IF j > Len(s) THEN Fail
    ELSE IF s[j] \in Digits THEN PyNumber(s, j)
    ELSE IF s[j] \in {"\"", "'"} THEN PyStrings(s, j, <<>>)
    ELSE IF s[j] = "["
    THEN LET es == PyElems(s, j + 1, <<>>, "]") IN
         IF es.ok THEN Parsed("list", ListRepr(es.items), es.next) ELSE Fail
    ELSE IF s[j] = "{" THEN PyBrace(s, j + 1)
    ELSE IF s[j] \in Letters THEN PyName(s, j)
    ELSE Fail

\* The rest of a top-level tuple "v, v, ..." after its first comma.
RECURSIVE PyTuple(_, _, _)
PyTuple(s, i, acc) ==
    LET j == SkipWs(s, i) IN
    IF j > Len(s) THEN Parsed("tuple", TupleRepr(acc), j)
    ELSE LET v == PyValue(s, j)
             k == SkipWs(s, v.next)
         IN  IF ~v.ok THEN Fail
             ELSE IF k > Len(s)
             THEN Parsed("tuple", TupleRepr(Append(acc, Value(v.type, v.repr))), k)
             ELSE IF s[k] = ","
             THEN PyTuple(s, k + 1, Append(acc, Value(v.type, v.repr)))
             ELSE Fail

\* ast.literal_eval(text): the value, or ok = FALSE when it raises.
literal_eval(text) ==
    LET v == PyValue(text, 1)
        k == SkipWs(text, v.next)
    IN  IF ~v.ok THEN Fail
        ELSE IF k > Len(text) THEN v
        ELSE IF text[k] = "," THEN PyTuple(text, k + 1, <<Value(v.type, v.repr)>>)
        ELSE Fail


\* A JSON string at position i (a double quote): up to the next double
\* quote, with no control character inside.
JsonString(s, i) ==
    LET j == IndexOf(s, <<"\"">>, i + 1) IN
    IF j = 0 \/ \E k \in (i + 1)..(j - 1) : s[k] \in Ctl
    THEN Fail
    ELSE Parsed("str", StrRepr(SubSeq(s, i + 1, j - 1)), j + 1)

\* A JSON integer: 0, or digits that do not start with 0.
JsonNumber(s, i) ==
    IF s[i] = "0" THEN Parsed("int", <<"0">>, i + 1)
    ELSE LET n == Run(s, Digits, i) IN
         Parsed("int", SubSeq(s, i, i + n - 1), i + n)

\* The JSON constants, matched as prefixes at position i.
JsonConstant(s, i) ==
    IF OccursAt(s, <<"n", "u", "l", "l">>, i)
    THEN Parsed("NoneType", <<"N", "o", "n", "e">>, i + 4)
    ELSE IF OccursAt(s, <<"t", "r", "u", "e">>, i)
    THEN Parsed("bool", <<"T", "r", "u", "e">>, i + 4)
    ELSE IF OccursAt(s, <<"f", "a", "l", "s", "e">>, i)
    THEN Parsed("bool", <<"F", "a", "l", "s", "e">>, i + 5)
    ELSE IF OccursAt(s, <<"N", "a", "N">>, i)
    THEN Parsed("float", <<"n", "a", "n">>, i + 3)
    ELSE Fail

RECURSIVE JsonValue(_, _)
RECURSIVE JsonElems(_, _, _)
RECURSIVE JsonPairs(_, _, _)

\* The elements of an array after "[" or after a comma.
JsonElems(s, i, acc) ==
    LET v == JsonValue(s, i)
        k == SkipWs(s, v.next)
    IN  IF ~v.ok \/ k > Len(s) THEN [ok |-> FALSE, items |-> <<>>, next |-> 0]
        ELSE IF s[k] = ","
        THEN JsonElems(s, k + 1, Append(acc, Value(v.type, v.repr)))
        ELSE IF s[k] = "]"
        THEN [ok |-> TRUE, items |-> Append(acc, Value(v.type, v.repr)),
              next |-> k + 1]
        ELSE [ok |-> FALSE, items |-> <<>>, next |-> 0]

\* The members of an object after "{" or after a comma: string keys only.
JsonPairs(s, i, acc) ==
    LET j == SkipWs(s, i) IN
    IF j > Len(s) \/ s[j] # "\"" THEN [ok |-> FALSE, items |-> <<>>, next |-> 0]
    ELSE LET key == JsonString(s, j)
             c == SkipWs(s, key.next)
         IN  IF ~key.ok \/ c > Len(s) \/ s[c] # ":"
             THEN [ok |-> FALSE, items |-> <<>>, next |-> 0]
             ELSE LET v == JsonValue(s, c + 1)
                      k == SkipWs(s, v.next)
                      pair == <<Value(key.type, key.repr), Value(v.type, v.repr)>>
                  IN  IF ~v.ok \/ k > Len(s)
                      THEN [ok |-> FALSE, items |-> <<>>, next |-> 0]
                      ELSE IF s[k] = "," THEN JsonPairs(s, k + 1, Append(acc, pair))
                      ELSE IF s[k] = "}"
                      THEN [ok |-> TRUE, items |-> Append(acc, pair), next |-> k + 1]
                      ELSE [ok |-> FALSE, items |-> <<>>, next |-> 0]

JsonValue(s, i) ==
    LET j == SkipWs(s, i) IN
    IF j > Len(s) THEN Fail
    ELSE IF s[j] \in Digits THEN JsonNumber(s, j)
    ELSE IF s[j] = "\"" THEN JsonString(s, j)
    ELSE IF s[j] = "["
    THEN LET e == SkipWs(s, j + 1) IN
         IF e <= Len(s) /\ s[e] = "]" THEN Parsed("list", <<"[", "]">>, e + 1)
         ELSE LET es == JsonElems(s, j + 1, <<>>) IN
              IF es.ok THEN Parsed("list", ListRepr(es.items), es.next) ELSE Fail
    ELSE IF s[j] = "{"
    THEN LET e == SkipWs(s, j + 1) IN
         IF e <= Len(s) /\ s[e] = "}" THEN Parsed("dict", <<"{", "}">>, e + 1)
         ELSE LET ps == JsonPairs(s, j + 1, <<>>) IN
              IF ps.ok THEN Parsed("dict", DictRepr(ps.items), ps.next) ELSE Fail
    ELSE JsonConstant(s, j)

\* json.loads(text): the value, or ok = FALSE when it raises.
json_loads(text) ==
    LET v == JsonValue(text, 1) IN
    IF v.ok /\ SkipWs(text, v.next) > Len(text) THEN v ELSE Fail

\* The empty default of a pipeline's extraction decode.
EmptyDefault(pipeline) ==
    IF pipeline = "acaps" THEN Value("dict", <<"{", "}">>)
    ELSE Value("list", <<"[", "]">>)

\* The two-attempt parse of call_chatgpt_async: literal_eval, then
\* json.loads, then the empty default.
DecodeText(pipeline, output_text) ==
    LET a == literal_eval(output_text) IN
    IF a.ok THEN Value(a.type, a.repr)
    ELSE LET b == json_loads(output_text) IN
         IF b.ok THEN Value(b.type, b.repr) ELSE EmptyDefault(pipeline)


\* ------------------------------------------------------- the bulk runner
\* Response texts the model offers as choices[0].message.content.
FencedObject ==
    Fence \o <<"j", "s", "o", "n", "\n", "{", "\"", "a", "\"", ":", " ", "[",
               "0", "]", "}", "\n">> \o Fence
IntList == <<"[", "1", ",", " ", "2", "]">>
Prose == <<"n", "o">>
Unclosed == <<"{", "\"", "a", "\"">>

Texts == {FencedObject, IntList, Prose, Unclosed}

\* What the network does with one POST: session.post raises, response.json()
\* raises, a JSON body without choices[0].message.content, or a body with it.
Outcomes ==
    [kind : {"post_raises", "json_raises", "bad_envelope"}, text : {<<>>}]
        \cup [kind : {"content"}, text : Texts]
NoReply == [kind |-> "none", text |-> <<>>]

NoValue == Value("none", <<>>)

VARIABLES
    pipeline,       \* "acaps" (generate_predictions.py) or "ohchr" (openai_async.py)
    response_type,  \* "extraction" or "summary" (ACAPS has extraction only)
    rate_limit,     \* the semaphore's size
    n,              \* len(messages): the units are 1..n, in submission order
    sem_value,      \* asyncio.Semaphore._value
    waiters,        \* asyncio.Semaphore._waiters, first in first out
    st,             \* each unit's position
    cancel_req,     \* units whose task was cancelled by the task group
    running,        \* the unit whose code is on the event loop's thread, or 0
    reply,          \* what the network answered to each unit
    output_text,    \* each unit's output_text
    result,         \* each unit's gpt_extracted_infos once decoded
    finished,       \* the units that returned a value, in completion order
    progress,       \* progress_bar.n
    progress_bar,   \* "none", "open" or "closed"
    session,        \* the aiohttp.ClientSession: "open" or "closed"
    bulk,           \* call_chatgpt_bulk: "gather", "aborting", "returned", "raised"
    responses,      \* the list call_chatgpt_bulk returns
    raw,            \* a text given to _postprocess_json_string on its own
    clean,          \* what _postprocess_json_string made of raw
    reclean,        \* what _postprocess_json_string made of its own output
    attempts,       \* the parse attempts made on clean, in the order made
    decoded,        \* gpt_extracted_infos of the decode of clean
    df,             \* the rows the prompts were built from, in order
    messages,       \* the prompts given to call_chatgpt_bulk, in order
    answers,        \* the list call_chatgpt_bulk returned for these prompts
    joined,         \* what the join made of df and answers
    part,           \* what one step of the sanitizer made of raw, on its own
    other,          \* what the other pipeline's sanitizer made of raw
    grouping,       \* one call of _get_list_of_sentences: its locals
    acaps_job,      \* one run of generate_summaries: its loop over the countries
    ohchr_job       \* the runs of ResultsGenerator and the results files

vars ==
    <<pipeline, response_type, rate_limit, n, sem_value, waiters, st,
      cancel_req, running, reply, output_text, result, finished, progress,
      progress_bar, session, bulk, responses, raw, clean, reclean, attempts,
      decoded, df, messages, answers, joined, part, other,
      grouping, acaps_job, ohchr_job>>

\* The state of one text's way through the sanitizer and the decode.
text_stage == <<raw, clean, reclean, attempts, decoded>>

\* The state of one join.
join_stage == <<df, messages, answers, joined>>

\* The state of one run of call_chatgpt_bulk, but for its arguments.
bulk_run ==
    <<sem_value, waiters, st, cancel_req, running, reply, output_text, result,
      finished, progress, progress_bar, session, bulk, responses>>

\* The state of the functions that are applied on their own.
other_stages == <<part, other, grouping, acaps_job, ohchr_job>>

\* What no step of a bulk run changes.
config ==
    <<pipeline, response_type, rate_limit, n, text_stage, join_stage,
      other_stages>>

\* The sanitizer, or the join, has not been applied.
NotRun == [done |-> FALSE, raised |-> FALSE, value |-> <<>>]

\* The decode has not produced gpt_extracted_infos.
NotDecoded == [done |-> FALSE, raised |-> FALSE, value |-> NoValue]

\* No text is on its way through the sanitizer and the decode.
NoText ==
    /\ raw = <<>>
    /\ clean = NotRun
    /\ reclean = NotRun
    /\ attempts = <<>>
    /\ decoded = NotDecoded

\* No join is under way.
NoJoin ==
    /\ df = <<>>
    /\ messages = <<>>
    /\ answers = <<>>
    /\ joined = NotRun

\* No function is applied on its own.
NoSanitizerStep ==
    /\ part = NotRun
    /\ other = NotRun

\* No call of _get_list_of_sentences is under way.
NoGrouping ==
    [lst |-> <<>>, step |-> 0, i |-> 0, result |-> <<>>, iterations |-> 0,
     returned |-> TRUE]

\* No run of generate_summaries is under way.
NoAcapsJob == [countries |-> 0, i |-> 0, outcome |-> <<>>, state |-> "returned"]

\* No run of ResultsGenerator was started and no results file exists.
NoOhchrJob ==
    [countries |-> 0, files |-> <<>>, runs |-> 0, processed_countries |-> <<>>,
     skipped |-> {}, at |-> 1, state |-> "none"]

NoOtherStage ==
    /\ NoSanitizerStep
    /\ grouping = NoGrouping
    /\ acaps_job = NoAcapsJob
    /\ ohchr_job = NoOhchrJob

Units == 1..n

\* A unit is done when its task has a result, an exception or is cancelled.
Done == {"completed", "raised", "cancelled"}

\* call_chatgpt_bulk up to its await of gather: the semaphore, the session,
\* the progress bar (OHCHR: for extraction only) and one task per message.
Init ==
    /\ pipeline \in {"acaps", "ohchr"}
    /\ response_type \in
           IF pipeline = "acaps" THEN {"extraction"} ELSE {"extraction", "summary"}
    /\ rate_limit \in 1..MaxRate
    /\ n \in 0..MaxBatch
    /\ sem_value = rate_limit
    /\ waiters = <<>>
    /\ st = [i \in 1..n |-> "pending"]
    /\ cancel_req = {}
    /\ running = 0
    /\ reply = [i \in 1..n |-> NoReply]
    /\ output_text = [i \in 1..n |-> <<>>]
    /\ result = [i \in 1..n |-> NoValue]
    /\ finished = <<>>
    /\ progress = 0
    /\ progress_bar =
           IF pipeline = "acaps" \/ response_type = "extraction"
           THEN "open" ELSE "none"
    /\ session = "open"
    /\ bulk = "gather"
    /\ responses = <<>>
    /\ NoText
    /\ NoJoin
    /\ NoOtherStage

\* ---- asyncio.Semaphore
\* Faulty variant of Locked: the test for value = 0 is lost, so a unit queues only
\* behind other waiters.
LockedIgnoringValue(value, ws, creq) ==
    \E k \in 1..Len(ws) : ws[k] \notin creq

\* Semaphore.locked(): no slot left, or a waiter that is not cancelled.
Locked(value, ws, creq) ==
    value = 0 \/ \E k \in 1..Len(ws) : ws[k] \notin creq

\* The waiter _wake_up_next() picks: the first whose future is not done
\* (neither granted nor cancelled); 0 when there is none.
NextWaiter(ws, s, creq) ==
    IF \E k \in 1..Len(ws) : s[ws[k]] = "waiting" /\ ws[k] \notin creq
    THEN ws[CHOOSE k \in 1..Len(ws) :
                /\ s[ws[k]] = "waiting" /\ ws[k] \notin creq
                /\ \A l \in 1..(k - 1) :
                       ~(s[ws[l]] = "waiting" /\ ws[l] \notin creq)]
    ELSE 0

\* While slots are free, hand one to the next waiter: [value, st] afterwards.
RECURSIVE WakeUp(_, _, _, _)
WakeUp(value, ws, s, creq) ==
    LET w == NextWaiter(ws, s, creq) IN
    IF value > 0 /\ w # 0
    THEN WakeUp(value - 1, ws, [s EXCEPT ![w] = "granted"], creq)
    ELSE [value |-> value, st |-> s]

\* Semaphore.release(): one slot back, then _wake_up_next().
Release(value, ws, s, creq) == WakeUp(value + 1, ws, s, creq)

Without(ws, i) == SelectSeq(ws, LAMBDA u : u # i)

\* progress_bar.update(1) in wrapped_call's finally.
Updated(count) == IF progress_bar = "none" THEN count ELSE count + 1

\* ---- call_chatgpt_async
\* Faulty variant of FailureSentinel: the OHCHR branches are swapped.
FailureSentinelSwapped(p, rtype) ==
    IF p = "acaps" THEN <<"{", "}">>
    ELSE IF rtype = "extraction" THEN <<>> ELSE <<"[", "]">>

\* The text that stands for a response without choices[0].message.content.
FailureSentinel(p, rtype) ==
    IF p = "acaps" THEN <<"{", "}">>
    ELSE IF rtype = "extraction" THEN <<"[", "]">> ELSE <<>>

\* Faulty variant of ExitOnException: the slot is released on the normal path only.
ExitWithoutRelease(value, ws, s, creq) == [value |-> value, st |-> s]

\* The slot a unit gives back when an exception leaves "async with semaphore".
ExitOnException(value, ws, s, creq) == Release(value, ws, s, creq)

\* An exception leaves call_chatgpt_async in unit i, which holds a slot: the
\* slot is released, wrapped_call's finally updates the progress bar, and the
\* task ends with the exception (to) or cancelled.
Leave(i, to) ==
    LET r == ExitOnException(sem_value, waiters, [st EXCEPT ![i] = to], cancel_req)
    IN  /\ sem_value' = r.value
        /\ st' = r.st
        /\ progress' = Updated(progress)
        /\ running' = 0

\* The task's first step: acquire the semaphore or queue for it; with a slot,
\* issue the POST.  Tasks start in the order they were created.
Start(i) ==
    /\ running = 0
    /\ st[i] = "pending"
    /\ \A j \in 1..(i - 1) : st[j] # "pending"
    /\ IF Locked(sem_value, waiters, cancel_req)
       THEN /\ waiters' = Append(waiters, i)
            /\ st' = [st EXCEPT ![i] = "waiting"]
            /\ UNCHANGED sem_value
       ELSE /\ sem_value' = sem_value - 1
            /\ st' = [st EXCEPT ![i] = "dispatched"]
            /\ UNCHANGED waiters
    /\ UNCHANGED <<config, cancel_req, running, reply, output_text, result,
                   finished, progress, progress_bar, session, bulk, responses>>

\* A waiter that was handed a slot resumes in acquire() and issues the POST.
Resume(i) ==
    /\ running = 0
    /\ st[i] = "granted"
    /\ i \notin cancel_req
    /\ LET ws == Without(waiters, i)
           r == WakeUp(sem_value, ws, [st EXCEPT ![i] = "dispatched"], cancel_req)
       IN  /\ waiters' = ws
           /\ sem_value' = r.value
           /\ st' = r.st
    /\ UNCHANGED <<config, cancel_req, running, reply, output_text, result,
                   finished, progress, progress_bar, session, bulk, responses>>

\* The network answers unit i's POST.
Network(i, o) ==
    /\ running = 0
    /\ st[i] = "dispatched"
    /\ i \notin cancel_req
    /\ \A j \in Units : st[j] # "pending"
    /\ reply' = [reply EXCEPT ![i] = o]
    /\ st' = [st EXCEPT ![i] =
                 IF o.kind \in {"post_raises", "json_raises"}
                 THEN "failed" ELSE "received"]
    /\ running' = i
    /\ UNCHANGED <<config, sem_value, waiters, cancel_req, output_text, result,
                   finished, progress, progress_bar, session, bulk, responses>>

\* session.post or response.json() raised.  ACAPS has no handler around
\* them; the OHCHR handler formats clean_response, which is unbound, and
\* raises UnboundLocalError.  Either way the exception leaves the unit.
TransportFailure(i) ==
    /\ running = i
    /\ st[i] = "failed"
    /\ Leave(i, "raised")
    /\ UNCHANGED <<config, waiters, cancel_req, reply, output_text, result,
                   finished, progress_bar, session, bulk, responses>>

\* A body was read: take choices[0].message.content or the failure
\* sentinel; extraction sanitizes it, which may raise.
Sanitize(i) ==
    LET text == IF reply[i].kind = "content" THEN reply[i].text
                ELSE FailureSentinel(pipeline, response_type)
        post == _postprocess_json_string(pipeline, text)
    IN  /\ running = i
        /\ st[i] = "received"
        /\ response_type = "extraction"
        /\ IF post.raised
           THEN /\ Leave(i, "raised")
                /\ UNCHANGED output_text
           ELSE /\ output_text' = [output_text EXCEPT ![i] = post.value]
                /\ st' = [st EXCEPT ![i] = "sanitized"]
                /\ UNCHANGED <<sem_value, progress, running>>
        /\ UNCHANGED <<config, waiters, cancel_req, reply, result, finished,
                       progress_bar, session, bulk, responses>>

\* Extraction: literal_eval, then json.loads, then the empty default.
Decode(i) ==
    /\ running = i
    /\ st[i] = "sanitized"
    /\ result' = [result EXCEPT ![i] = DecodeText(pipeline, output_text[i])]
    /\ st' = [st EXCEPT ![i] = "decoded"]
    /\ UNCHANGED <<config, sem_value, waiters, cancel_req, running, reply,
                   output_text, finished, progress, progress_bar, session,
                   bulk, responses>>

\* Faulty variant of SummaryValue: the summary text is given to the decode of
\* the extraction kind.
SummaryDecoded(text) == DecodeText("ohchr", text)

\* gpt_extracted_infos = output_text: the str itself.
SummaryValue(text) == Value("str", text)

\* Summary: gpt_extracted_infos is the text itself.
TakeSummary(i) ==
    LET text == IF reply[i].kind = "content" THEN reply[i].text
                ELSE FailureSentinel(pipeline, response_type)
    IN  /\ running = i
        /\ st[i] = "received"
        /\ response_type = "summary"
        /\ output_text' = [output_text EXCEPT ![i] = text]
        /\ result' = [result EXCEPT ![i] = SummaryValue(text)]
        /\ st' = [st EXCEPT ![i] = "decoded"]
        /\ UNCHANGED <<config, sem_value, waiters, cancel_req, running, reply,
                       finished, progress, progress_bar, session, bulk,
                       responses>>

\* The unit leaves "async with semaphore", returns its value, and
\* wrapped_call's finally updates the progress bar.
Return(i) ==
    /\ running = i
    /\ st[i] = "decoded"
    /\ LET r == Release(sem_value, waiters, [st EXCEPT ![i] = "completed"],
                        cancel_req)
       IN  /\ sem_value' = r.value
           /\ st' = r.st
    /\ finished' = Append(finished, i)
    /\ progress' = Updated(progress)
    /\ running' = 0
    /\ UNCHANGED <<config, waiters, cancel_req, reply, output_text, result,
                   progress_bar, session, bulk, responses>>

\* Faulty variant of UpdatedWhenCancelled: the update is in an
\* "except Exception" clause, which CancelledError passes by.
NotUpdatedWhenCancelled(count) == count

\* wrapped_call's finally clause runs when CancelledError leaves the unit.
UpdatedWhenCancelled(count) == Updated(count)

\* CancelledError reaches unit i where it is suspended: queued for the
\* semaphore, handed a slot but not yet resumed, or awaiting the network.
Cancelled(i) ==
    /\ running = 0
    /\ i \in cancel_req
    /\ st[i] \in {"waiting", "granted", "dispatched"}
    /\ LET ws == Without(waiters, i)
           s == [st EXCEPT ![i] = "cancelled"]
           r == IF st[i] = "waiting"
                THEN WakeUp(sem_value, ws, s, cancel_req)
                ELSE ExitOnException(sem_value, ws, s, cancel_req)
       IN  /\ waiters' = ws
           /\ sem_value' = r.value
           /\ st' = r.st
    /\ progress' = UpdatedWhenCancelled(progress)
    /\ UNCHANGED <<config, cancel_req, running, reply, output_text, result,
                   finished, progress_bar, session, bulk, responses>>

\* ---- call_chatgpt_bulk
\* Faulty variant of AllDone: the exit does not wait for the tasks.
NoWaiting == TRUE

\* The task group's exit waits until every task is done.
AllDone == \A i \in Units : st[i] \in Done

\* Faulty variant of Gathered: the results in the order the tasks completed.
GatheredAsCompleted == [i \in 1..Len(finished) |-> result[finished[i]]]

\* asyncio.gather(*tasks): the tasks' results in the order of the tasks.
Gathered == [i \in 1..n |-> result[i]]

\* Faulty variant of SessionOnAbort: the session's "async with" is inside the
\* task group's, so the cancellation of the awaiting gather closes the
\* session while the tasks are still being cancelled.
SessionClosedOnAbort(s) == "closed"

\* The session's "async with" encloses the task group's: an abort leaves the
\* session as it is.
SessionOnAbort(s) == s

\* A task raised: the task group cancels every task that is not done, and
\* the body's await of gather ends with the exception.
TaskGroupAbort ==
    /\ running = 0
    /\ bulk = "gather"
    /\ \E i \in Units : st[i] = "raised"
    /\ cancel_req' = {i \in Units : st[i] \notin Done}
    /\ bulk' = "aborting"
    /\ session' = SessionOnAbort(session)
    /\ UNCHANGED <<config, sem_value, waiters, st, running, reply, output_text,
                   result, finished, progress, progress_bar, responses>>

\* Every task returned a value: gather gives the list, the progress bar and
\* the session are closed and the list is returned.
BulkReturn ==
    /\ running = 0
    /\ bulk = "gather"
    /\ AllDone
    /\ \A i \in Units : st[i] = "completed"
    /\ responses' = Gathered
    /\ progress_bar' = IF progress_bar = "none" THEN "none" ELSE "closed"
    /\ session' = "closed"
    /\ bulk' = "returned"
    /\ UNCHANGED <<config, sem_value, waiters, st, cancel_req, running, reply,
                   output_text, result, finished, progress>>

\* The aborted task group has waited for its tasks and raises the exception
\* group; the session is closed on the way out, progress_bar.close() is
\* skipped.
BulkRaise ==
    /\ running = 0
    /\ bulk = "aborting"
    /\ AllDone
    /\ session' = "closed"
    /\ bulk' = "raised"
    /\ UNCHANGED <<config, sem_value, waiters, st, cancel_req, running, reply,
                   output_text, result, finished, progress, progress_bar,
                   responses>>

Next ==
    \/ \E i \in Units : Start(i)
    \/ \E i \in Units : Resume(i)
    \/ \E i \in Units : \E o \in Outcomes : Network(i, o)
    \/ \E i \in Units : TransportFailure(i)
    \/ \E i \in Units : Sanitize(i)
    \/ \E i \in Units : Decode(i)
    \/ \E i \in Units : TakeSummary(i)
    \/ \E i \in Units : Return(i)
    \/ \E i \in Units : Cancelled(i)
    \/ TaskGroupAbort
    \/ BulkReturn
    \/ BulkRaise

Spec == Init /\ [][Next]_vars

\* ------------------------------------------------- the sanitizer on its own
\* Characters of the raw texts the sanitizer is applied to.
RawChars == {"{", "}", "[", "]", "\"", ",", " ", "\n", "a"}

RECURSIVE TextsUpTo(_, _)
TextsUpTo(chars, len) ==
    IF len = 0 THEN {<<>>}
    ELSE LET shorter == TextsUpTo(chars, len - 1) IN
         shorter \cup {Append(t, c) : t \in shorter, c \in chars}

RawTexts == TextsUpTo(RawChars, MaxLen)

\* No bulk run: an empty batch that has returned.
NoBulkRun ==
    /\ response_type = "extraction"
    /\ rate_limit = 1
    /\ n = 0
    /\ sem_value = 1
    /\ waiters = <<>>
    /\ st = <<>>
    /\ cancel_req = {}
    /\ running = 0
    /\ reply = <<>>
    /\ output_text = <<>>
    /\ result = <<>>
    /\ finished = <<>>
    /\ progress = 0
    /\ progress_bar = "closed"
    /\ session = "closed"
    /\ bulk = "returned"
    /\ responses = <<>>

SanInit ==
    /\ pipeline \in {"acaps", "ohchr"}
    /\ NoBulkRun
    /\ NoJoin
    /\ raw \in RawTexts
    /\ clean = NotRun
    /\ reclean = NotRun
    /\ attempts = <<>>
    /\ decoded = NotDecoded
    /\ NoOtherStage

\* _postprocess_json_string(raw) of the pipeline.
Postprocess ==
    /\ ~clean.done
    /\ LET r == _postprocess_json_string(pipeline, raw) IN
       clean' = [done |-> TRUE, raised |-> r.raised, value |-> r.value]
    /\ UNCHANGED <<pipeline, response_type, rate_limit, n, bulk_run,
                   other_stages,
                   join_stage, raw, reclean, attempts, decoded>>

\* _postprocess_json_string applied to the text it returned.
PostprocessAgain ==
    /\ clean.done
    /\ ~clean.raised
    /\ ~reclean.done
    /\ LET r == _postprocess_json_string(pipeline, clean.value) IN
       reclean' = [done |-> TRUE, raised |-> r.raised, value |-> r.value]
    /\ UNCHANGED <<pipeline, response_type, rate_limit, n, bulk_run,
                   other_stages,
                   join_stage, raw, clean, attempts, decoded>>

SanNext == Postprocess \/ PostprocessAgain

SanSpec == SanInit /\ [][SanNext]_vars

\* ------------------------------------------ the bracket extraction on its own
\* What a step leaves alone when it is applied to raw on its own.
but_part ==
    <<pipeline, response_type, rate_limit, n, bulk_run, text_stage,
      join_stage, other, grouping, acaps_job, ohchr_job>>

\* _extract_and_evaluate_first(raw): the function is the same in both files.
ExtractFirst ==
    /\ ~part.done
    /\ \E r \in {_extract_and_evaluate_first(raw)} :
           part' = [done |-> TRUE, raised |-> r.raised, value |-> r.value]
    /\ UNCHANGED but_part

ExtractSpec == SanInit /\ [][ExtractFirst]_vars

\* ------------------------------------------- the missing-comma repair on its own
MaxToken == 2
MaxGap == 2

Quoted(content) == <<"\"">> \o content \o <<"\"">>

\* What stands between the quotes of a token, and between two tokens.
Contents == TextsUpTo({"a", "b"}, MaxToken)
Gaps == TextsUpTo({" ", "\n"}, MaxGap) \ {<<>>}

\* Two double-quoted tokens separated only by whitespace.
QuotedPair(x, w, y) == Quoted(x) \o w \o Quoted(y)
QuotedPairs == {QuotedPair(x, w, y) : x \in Contents, w \in Gaps, y \in Contents}

CommaInit ==
    /\ pipeline = "acaps"
    /\ NoBulkRun
    /\ NoJoin
    /\ raw \in QuotedPairs
    /\ clean = NotRun
    /\ reclean = NotRun
    /\ attempts = <<>>
    /\ decoded = NotDecoded
    /\ NoOtherStage

\* _add_comma_between_quotes(raw).
AddComma ==
    /\ ~part.done
    /\ part' = [done |-> TRUE, raised |-> FALSE,
                value |-> _add_comma_between_quotes(raw)]
    /\ UNCHANGED but_part

CommaSpec == CommaInit /\ [][AddComma]_vars

\* ------------------------------------------------- the two sanitizers compared
OtherPipeline == IF pipeline = "acaps" THEN "ohchr" ELSE "acaps"

\* _postprocess_json_string(raw) of the other pipeline's file.
PostprocessOther ==
    /\ ~other.done
    /\ \E r \in {_postprocess_json_string(OtherPipeline, raw)} :
           other' = [done |-> TRUE, raised |-> r.raised, value |-> r.value]
    /\ UNCHANGED <<pipeline, response_type, rate_limit, n, bulk_run,
                   text_stage, join_stage, part, grouping, acaps_job,
                   ohchr_job>>

BothNext == Postprocess \/ PostprocessOther

BothSpec == SanInit /\ [][BothNext]_vars

\* --------------------------------------------------- the sentence grouping
MaxSentences == 6
MaxStep == 4

\* The loop of _get_list_of_sentences is followed for so many iterations.
MaxIterations == MaxSentences + 2

\* lst[a:b] for 0 <= a <= b.
Slice(lst, a, b) == SubSeq(lst, a + 1, IF b <= Len(lst) THEN b ELSE Len(lst))

\* The sentences of a text are told apart by their place in it.
Sentences(len) == [k \in 1..len |-> k]

\* _get_list_of_sentences(lst, step) up to its while: step is what
\* --n_grouped_sentences passes, an integer of 1 or more here.
GroupInit ==
    /\ pipeline = "ohchr"
    /\ NoBulkRun
    /\ NoText
    /\ NoJoin
    /\ NoSanitizerStep
    /\ acaps_job = NoAcapsJob
    /\ ohchr_job = NoOhchrJob
    /\ \E len \in 0..MaxSentences, step \in 1..MaxStep :
           grouping = [lst |-> Sentences(len), step |-> step, i |-> 0,
                       result |-> <<>>, iterations |-> 0, returned |-> FALSE]

but_grouping ==
    <<pipeline, response_type, rate_limit, n, bulk_run, text_stage,
      join_stage, part, other, acaps_job, ohchr_job>>

\* The condition of the while.
LoopCondition == grouping.i + grouping.step <= Len(grouping.lst) + 1

\* One pass through the body of the while.
LoopBody ==
    /\ ~grouping.returned
    /\ LoopCondition
    /\ grouping.iterations < MaxIterations
    /\ LET added_list ==
               Slice(grouping.lst, grouping.i, grouping.i + grouping.step)
       IN  grouping' =
               [grouping EXCEPT
                    !.result = IF Len(added_list) > 1
                               THEN Append(@, added_list) ELSE @,
                    !.i = @ + grouping.step - 1,
                    !.iterations = @ + 1]
    /\ UNCHANGED but_grouping

\* The while ends and result is returned.
ReturnGroups ==
    /\ ~grouping.returned
    /\ ~LoopCondition
    /\ grouping' = [grouping EXCEPT !.returned = TRUE]
    /\ UNCHANGED but_grouping

GroupNext == LoopBody \/ ReturnGroups

GroupSpec == GroupInit /\ [][GroupNext]_vars

\* ------------------------------------------------------------ the ACAPS job
MaxCountries == 4

\* generate_summaries up to its loop over to_be_processed_countries.
AcapsJobInit ==
    /\ pipeline = "acaps"
    /\ NoBulkRun
    /\ NoText
    /\ NoJoin
    /\ NoSanitizerStep
    /\ grouping = NoGrouping
    /\ ohchr_job = NoOhchrJob
    /\ \E c \in 0..MaxCountries :
           acaps_job = [countries |-> c, i |-> 0,
                        outcome |-> [k \in 1..c |-> "todo"], state |-> "loop"]

but_acaps_job ==
    <<pipeline, response_type, rate_limit, n, bulk_run, text_stage,
      join_stage, part, other, grouping, ohchr_job>>

\* The country of the current pass of the loop (one_country).
InLoop == acaps_job.state = "loop" /\ acaps_job.i < acaps_job.countries

\* The current pass ends with the given outcome and the loop goes on.
NextCountry(outcome) ==
    acaps_job' = [acaps_job EXCEPT !.outcome[acaps_job.i + 1] = outcome,
                                   !.i = @ + 1]

\* len(inference_dataset) == 0: logged, continue.
NoNewData ==
    /\ InLoop
    /\ NextCountry("no new data")
    /\ UNCHANGED but_acaps_job

\* The summary batch and the join return and the country's csv is written.
WriteCountry ==
    /\ InLoop
    /\ NextCountry("written")
    /\ UNCHANGED but_acaps_job

\* _generate_general_summary or _get_final_results raises: the try and the
\* except around them are commented out, so the exception leaves the loop
\* and generate_summaries.
CountryRaises ==
    /\ InLoop
    /\ \E call \in {"_generate_general_summary", "_get_final_results"} :
           acaps_job' = [acaps_job EXCEPT !.outcome[acaps_job.i + 1] = call,
                                          !.state = "raised"]
    /\ UNCHANGED but_acaps_job

\* The loop is over and generate_summaries returns.
ReturnSummaries ==
    /\ acaps_job.state = "loop"
    /\ acaps_job.i = acaps_job.countries
    /\ acaps_job' = [acaps_job EXCEPT !.state = "returned"]
    /\ UNCHANGED but_acaps_job

AcapsJobNext == NoNewData \/ WriteCountry \/ CountryRaises \/ ReturnSummaries

AcapsJobSpec == AcapsJobInit /\ [][AcapsJobNext]_vars

\* ------------------------------------------------------------ the OHCHR job
MaxIndicators == 2
MaxRuns == 2

\* The countries of the input file, in its order.  files[c] is the number of
\* indicators in the results file of country c, 0 when there is no file.
OhchrJobInit ==
    /\ pipeline = "ohchr"
    /\ NoBulkRun
    /\ NoText
    /\ NoJoin
    /\ NoSanitizerStep
    /\ grouping = NoGrouping
    /\ acaps_job = NoAcapsJob
    /\ \E c \in 1..MaxCountries :
           ohchr_job = [NoOhchrJob EXCEPT !.countries = c,
                                          !.files = [k \in 1..c |-> 0]]

but_ohchr_job ==
    <<pipeline, response_type, rate_limit, n, bulk_run, text_stage,
      join_stage, part, other, grouping, acaps_job>>

FileExists(c) == ohchr_job.files[c] > 0

\* The countries from k on, in order, whose results file does not exist.
RECURSIVE WithoutFile(_)
WithoutFile(k) ==
    IF k > ohchr_job.countries THEN <<>>
    ELSE (IF FileExists(k) THEN <<>> ELSE <<k>>) \o WithoutFile(k + 1)

\* ResultsGenerator.__init__: processed_countries keeps the countries whose
\* results file does not exist.
StartRun ==
    /\ ohchr_job.state # "running"
    /\ ohchr_job.runs < MaxRuns
    /\ ohchr_job' =
           [ohchr_job EXCEPT
                !.runs = @ + 1,
                !.processed_countries = WithoutFile(1),
                !.skipped = {c \in 1..ohchr_job.countries : FileExists(c)},
                !.at = 1,
                !.state = "running"]
    /\ UNCHANGED but_ohchr_job

\* The country of the current pass of the loop of generate_results.
Running ==
    /\ ohchr_job.state = "running"
    /\ ohchr_job.at <= Len(ohchr_job.processed_countries)

one_country == ohchr_job.processed_countries[ohchr_job.at]

\* _get_law_summary returns for the next indicator and to_excel writes the
\* country's file with the indicators so far; after the last indicator the
\* loop goes on to the next country.
SaveIndicator ==
    /\ Running
    /\ LET saved == ohchr_job.files[one_country] + 1 IN
       ohchr_job' =
           [ohchr_job EXCEPT
                !.files[one_country] = saved,
                !.at = IF saved = MaxIndicators THEN @ + 1 ELSE @]
    /\ UNCHANGED but_ohchr_job

\* An exception leaves generate_results in the middle of a country: a
\* batch of _create_indicator_wise_relevant_entries_df or of
\* _get_law_summary raised.
RunRaises ==
    /\ Running
    /\ ohchr_job' = [ohchr_job EXCEPT !.state = "raised"]
    /\ UNCHANGED but_ohchr_job

\* The loop over processed_countries is over.
RunReturns ==
    /\ ohchr_job.state = "running"
    /\ ohchr_job.at > Len(ohchr_job.processed_countries)
    /\ ohchr_job' = [ohchr_job EXCEPT !.state = "returned"]
    /\ UNCHANGED but_ohchr_job

OhchrJobNext == StartRun \/ SaveIndicator \/ RunRaises \/ RunReturns

OhchrJobSpec == OhchrJobInit /\ [][OhchrJobNext]_vars

\* ---------------------------------------------- the decode stage on its own
\* Characters of the response texts that are sanitized and then decoded.
DecChars == {"[", "]", "{", "}", "\"", ",", " ", "1", "BEL"}

Null == <<"n", "u", "l", "l">>
NotANumber == <<"N", "a", "N">>

\* Well-formed flat JSON objects: one or two keys, each value a string,
\* possibly empty, or a list of integers.
FlatValues ==
    {Quoted(<<>>), Quoted(<<"a">>), <<"[", "]">>, <<"[", "1", "]">>, IntList}

Pair(key, value) == Quoted(<<key>>) \o <<":", " ">> \o value

FlatObjects ==
    {<<"{">> \o Pair("a", v) \o <<"}">> : v \in FlatValues}
        \cup {<<"{">> \o Pair("a", v) \o <<",", " ">> \o Pair("b", w) \o <<"}">> :
                  v \in FlatValues, w \in FlatValues}

DecTexts ==
    TextsUpTo(DecChars, MaxLen)
        \cup {Null, NotANumber, IntList, FencedObject} \cup FlatObjects

DecInit ==
    /\ pipeline \in {"acaps", "ohchr"}
    /\ NoBulkRun
    /\ NoJoin
    /\ raw \in DecTexts
    /\ clean = NotRun
    /\ reclean = NotRun
    /\ attempts = <<>>
    /\ decoded = NotDecoded
    /\ NoOtherStage

\* Faulty variant of Parsers: the try blocks are nested the other way round.
ParsersSwapped == <<"json.loads", "literal_eval">>

\* The parsers of the two nested try blocks, outer first.
Parsers == <<"literal_eval", "json.loads">>

Parse(parser, text) ==
    IF parser = "literal_eval" THEN literal_eval(text) ELSE json_loads(text)

\* Faulty variant of BothFailed: the inner try has no except clause, so the
\* exception of json.loads leaves call_chatgpt_async.
BothFailedRaises(p) == [raised |-> TRUE, value |-> NoValue]

\* The inner except clause: it logs and takes the empty default.
BothFailed(p) == Returned(EmptyDefault(p))

\* The k-th try block on the sanitized text.  A parser that returns gives
\* gpt_extracted_infos; the exception of the first is caught by the outer
\* except clause, which goes on to the second try block; the exception of
\* the second is caught by the inner except clause.
Attempt(k) ==
    /\ clean.done
    /\ ~clean.raised
    /\ ~decoded.done
    /\ k = Len(attempts) + 1
    /\ k <= Len(Parsers)
    /\ \E r \in {Parse(Parsers[k], clean.value)} :
       LET out == IF r.ok THEN Returned(Value(r.type, r.repr))
                  ELSE BothFailed(pipeline)
       IN  /\ attempts' = Append(attempts, [parser |-> Parsers[k],
                                            text |-> clean.value,
                                            ok |-> r.ok])
           /\ decoded' = IF r.ok \/ k = Len(Parsers)
                         THEN [done |-> TRUE, raised |-> out.raised,
                               value |-> out.value]
                         ELSE decoded
    /\ UNCHANGED <<pipeline, response_type, rate_limit, n, bulk_run,
                   other_stages,
                   join_stage, raw, clean, reclean>>

DecNext == Postprocess \/ \E k \in 1..Len(Parsers) : Attempt(k)

DecSpec == DecInit /\ [][DecNext]_vars

\* ------------------------------------------------------------- the joiners
MaxRows == 2
MaxEntries == 2

\* The evidence item at index k, counted from 0, of the row at position i.
Entry(i, k) == [row |-> i, k |-> k]

\* The row at position i: its context and its list of evidence items
\* ("entries" for ACAPS, "Sentences Groups" for OHCHR).
Row(i, count) ==
    [country |-> i, entries |-> [k \in 1..count |-> Entry(i, k - 1)]]

\* The data frames of m rows, each with at least one evidence item.
Frames(m) == {[i \in 1..m |-> Row(i, c[i])] : c \in [1..m -> 1..MaxEntries]}

RECURSIVE Ascending(_)
Ascending(S) ==
    IF S = {} THEN <<>>
    ELSE LET least == CHOOSE x \in S : \A y \in S : x <= y IN
         <<least>> \o Ascending(S \ {least})

\* The index lists a response cites: MaxEntries is past the end of every
\* row's list, and smaller indices are past the end of the shorter lists.
IdLists == {Ascending(S) : S \in SUBSET (0..MaxEntries)}

\* The decoded values of ACAPS: {} or {"Text": ..., "ID": [...]}.  The text
\* of the answer to prompt i is written i.
EmptyDict == [len |-> 0, Text |-> 0, ID |-> <<>>]
Statement(i, ids) == [len |-> 2, Text |-> i, ID |-> ids]

AcapsAnswers(m) ==
    {[i \in 1..m |-> IF e[i] THEN EmptyDict ELSE Statement(i, a[i])] :
        e \in [1..m -> BOOLEAN], a \in [1..m -> IdLists]}

\* The decoded values of OHCHR: a list of indices.
OhchrAnswers(m) == [1..m -> IdLists]

\* The prompt built from a row: the user message enumerates the row's
\* evidence items from 0.
Prompt(row) == [row |-> row.country, user |-> row.entries]

\* One prompt per row of a frame, in the order of iterrows().
PromptsOf(frame) == [i \in 1..Len(frame) |-> Prompt(frame[i])]

\* _generate_general_summary: the prompts of the inference dataset.
AcapsBuild(inference_dataset) ==
    [final_df |-> inference_dataset, messages |-> PromptsOf(inference_dataset)]

\* The loop over the indicators from indicator g on, groups[g] being the
\* most_relevant_df of indicator g: final_df is the concatenation of the
\* frames and messages is extended by the prompts of each frame.
RECURSIVE OhchrBuild(_, _)
OhchrBuild(groups, g) ==
    IF g > Len(groups) THEN [final_df |-> <<>>, messages |-> <<>>]
    ELSE LET rest == OhchrBuild(groups, g + 1) IN
         [final_df |-> groups[g] \o rest.final_df,
          messages |-> PromptsOf(groups[g]) \o rest.messages]

\* The ways the rows of a frame come from one, two or three indicators.
Groupings(d) ==
    {<<d>>} \cup
    {<<SubSeq(d, 1, c), SubSeq(d, c + 1, Len(d))>> : c \in 0..Len(d)} \cup
    {<<SubSeq(d, 1, 1), SubSeq(d, 2, c), SubSeq(d, c + 1, Len(d))>> :
        c \in 1..Len(d)}

JoinInit ==
    /\ pipeline \in {"acaps", "ohchr"}
    /\ NoBulkRun
    /\ NoText
    /\ NoJoin
    /\ NoOtherStage

\* The prompts are built from the rows and given to call_chatgpt_bulk, which
\* returns one decoded value per prompt.
BuildPrompts ==
    /\ df = <<>>
    /\ \E m \in 1..MaxRows : \E d \in Frames(m) : \E groups \in Groupings(d) :
           LET built == IF pipeline = "acaps" THEN AcapsBuild(d)
                        ELSE OhchrBuild(groups, 1)
           IN  /\ df' = built.final_df
               /\ messages' = built.messages
               /\ answers' \in IF pipeline = "acaps"
                                THEN AcapsAnswers(Len(built.messages))
                                ELSE OhchrAnswers(Len(built.messages))
    /\ UNCHANGED <<pipeline, response_type, rate_limit, n, bulk_run,
                   other_stages,
                   text_stage, joined>>

\* list[id] of Python: IndexError outside -len..len-1, negative from the end.
InRange(list, id) == -Len(list) <= id /\ id < Len(list)
Item(list, id) == IF id >= 0 THEN list[id + 1] ELSE list[Len(list) + id + 1]

\* [relevant_entries[int(one_id)] for one_id in ids]
Cited(list, ids) == [k \in 1..Len(ids) |-> Item(list, ids[k])]

\* Faulty variant of SlotRow: the row is taken at the number of statements
\* met so far instead of at the slot's position.
SlotRowCompacted(results, i) ==
    Cardinality({j \in 1..i : results[j].len > 0})

\* df.iloc[i] for the i of enumerate(final_results).
SlotRow(results, i) == i

\* The loop of _get_final_results from slot i on: the records appended, or
\* the IndexError of an index outside the row's entries.
RECURSIVE AcapsRecords(_, _, _)
AcapsRecords(d, results, i) ==
    IF i > Len(results) THEN Returned(<<>>)
    ELSE IF results[i].len = 0 THEN AcapsRecords(d, results, i + 1)
    ELSE LET original_entry == d[SlotRow(results, i)]
             ids == results[i].ID
         IN  IF \E k \in 1..Len(ids) : ~InRange(original_entry.entries, ids[k])
             THEN Raised
             ELSE LET rest == AcapsRecords(d, results, i + 1) IN
                  IF rest.raised THEN Raised
                  ELSE Returned(
                      <<[Country |-> original_entry.country,
                         Text |-> results[i].Text,
                         Evidence |-> Cited(original_entry.entries, ids)]>>
                      \o rest.value)

\* The Evidence of a row that DataFrame.explode made from an empty list.
NaN == Entry(0, 0)

\* DataFrame.explode("Evidence") of one record: a row per item of the list,
\* or one row with NaN for an empty list.
ExplodeRecord(r) ==
    IF r.Evidence = <<>>
    THEN <<[Country |-> r.Country, Text |-> r.Text, Evidence |-> NaN]>>
    ELSE [k \in 1..Len(r.Evidence) |->
             [Country |-> r.Country, Text |-> r.Text, Evidence |-> r.Evidence[k]]]

RECURSIVE ExplodeFrom(_, _)
ExplodeFrom(records, i) ==
    IF i > Len(records) THEN <<>>
    ELSE ExplodeRecord(records[i]) \o ExplodeFrom(records, i + 1)

\* pd.DataFrame(records).explode("Evidence"): the frame of no records has no
\* column "Evidence" and explode raises KeyError.
Explode(records) ==
    IF records = <<>> THEN Raised ELSE Returned(ExplodeFrom(records, 1))

\* The columns read from each row's Evidence: x["text"] raises TypeError on
\* NaN.
SourceColumns(rows) ==
    IF \E k \in 1..Len(rows) : rows[k].Evidence = NaN THEN Raised
    ELSE Returned(rows)

_get_final_results(d, final_results) ==
    LET records == AcapsRecords(d, final_results, 1) IN
    IF records.raised THEN Raised
    ELSE LET exploded == Explode(records.value) IN
         IF exploded.raised THEN Raised ELSE SourceColumns(exploded.value)

\* The loop of _create_indicator_wise_relevant_entries_df over the rows of
\* final_df from row i on: the "Extracted Infos" of each row, or the
\* IndexError of an index outside the row's "Sentences Groups".
RECURSIVE ExtractedInfos(_, _, _)
ExtractedInfos(final_df, ans, i) ==
    IF i > Len(final_df) THEN Returned(<<>>)
    ELSE IF \E k \in 1..Len(ans[i]) : ~InRange(final_df[i].entries, ans[i][k])
         THEN Raised
         ELSE LET rest == ExtractedInfos(final_df, ans, i + 1) IN
              IF rest.raised THEN Raised
              ELSE Returned(
                  <<[Country |-> final_df[i].country,
                     Infos |-> Cited(final_df[i].entries, ans[i])]>>
                  \o rest.value)

\* The join of the pipeline applied to df and answers.
JoinAnswers ==
    /\ df # <<>>
    /\ ~joined.done
    /\ LET r == IF pipeline = "acaps" THEN _get_final_results(df, answers)
                ELSE ExtractedInfos(df, answers, 1)
       IN  joined' = [done |-> TRUE, raised |-> r.raised, value |-> r.value]
    /\ UNCHANGED <<pipeline, response_type, rate_limit, n, bulk_run,
                   other_stages,
                   text_stage, df, messages, answers>>

JoinNext == BuildPrompts \/ JoinAnswers

JoinSpec == JoinInit /\ [][JoinNext]_vars

\* ------------------------------------------------------------- the claims
Failing == {"post_raises", "json_raises"}

\* Units that hold a slot of the semaphore.
Holders ==
    {i \in Units : st[i] \in {"granted", "dispatched", "received", "failed",
                              "sanitized", "decoded"}}

\* Units whose POST is in flight.
InFlight == {i \in Units : st[i] = "dispatched"}

Ended == bulk \in {"returned", "raised"}

\* The value the code makes of what the network answered to unit i.
DecodedReply(i) ==
    LET text == IF reply[i].kind = "content" THEN reply[i].text
                ELSE IF pipeline = "acaps" THEN <<"{", "}">>
                ELSE IF response_type = "extraction" THEN <<"[", "]">>
                ELSE <<>>
    IN  IF response_type = "summary" THEN Value("str", text)
        ELSE DecodeText(pipeline, _postprocess_json_string(pipeline, text).value)

\* C1: order preservation.  When call_chatgpt_bulk returns, it returns one
\* result per prompt and the result at index i is the decoded value of the
\* response to prompt i, whatever the order in which the calls completed.
C1_OrderPreserved ==
    bulk = "returned" =>
        /\ Len(responses) = n
        /\ \A i \in Units : responses[i] = DecodedReply(i)

\* C1 witness: a batch returned whose second call completed before its
\* first, with different values at the two slots.
C1_Witness ==
    /\ bulk = "returned"
    /\ n >= 2
    /\ finished[1] = 2
    /\ responses[1] # responses[2]

\* C2: concurrency ceiling.  At most rate_limit units hold a slot, so at
\* most rate_limit POSTs are in flight.
C2_ConcurrencyCeiling ==
    /\ Cardinality(Holders) <= rate_limit
    /\ Cardinality(InFlight) <= rate_limit

\* C2 witness: the ceiling binds: rate_limit = 2 calls in flight while a
\* third unit waits for a slot.
C2_Witness ==
    /\ rate_limit = 2
    /\ Cardinality(InFlight) = 2
    /\ \E i \in Units : st[i] = "waiting"

\* C3: no entry is ever dropped.  Whatever the outcome of each element,
\* call_chatgpt_bulk ends by returning a list of the batch's length, with the
\* empty default at the slot of every failed element; it never ends by
\* raising because of one element.
C3_NoEntryDropped ==
    Ended =>
        /\ bulk = "returned"
        /\ Len(responses) = n
        /\ \A i \in Units :
               reply[i].kind \in Failing =>
                   responses[i] \in {EmptyDefault(pipeline), Value("str", <<>>)}

\* C4: a transport failure is recovered locally.  When session.post or
\* response.json() raises, the unit does not end with an exception.
C4_TransportFailureRecovered ==
    \A i \in Units : reply[i].kind \in Failing => st[i] # "raised"

\* C5: failures are per call.  When the call of unit j fails, no other unit
\* is cancelled, and every other unit ends with the decoded value of its own
\* response.
C5_FailuresArePerCall ==
    \A j \in Units :
        reply[j].kind \in Failing =>
            \A i \in Units \ {j} :
                /\ i \notin cancel_req
                /\ st[i] # "cancelled"
                /\ Ended => (st[i] = "completed" /\ result[i] = DecodedReply(i))

\* C6: malformed-envelope recovery.  A unit whose response body lacks
\* choices[0].message.content never raises, and its result is the empty
\* default of its kind: {} in ACAPS, [] in OHCHR extraction, "" in OHCHR
\* summary.
C6_MalformedEnvelopeRecovered ==
    \A i \in Units :
        reply[i].kind = "bad_envelope" =>
            /\ st[i] \in {"received", "sanitized", "decoded", "completed"}
            /\ st[i] \in {"decoded", "completed"} =>
                   result[i] =
                       IF pipeline = "acaps" THEN Value("dict", <<"{", "}">>)
                       ELSE IF response_type = "extraction"
                       THEN Value("list", <<"[", "]">>)
                       ELSE Value("str", <<>>)

\* C6 witness: an OHCHR summary batch returned with the empty string at the
\* slot of a unit that got a malformed envelope.
C6_Witness ==
    /\ bulk = "returned"
    /\ pipeline = "ohchr"
    /\ response_type = "summary"
    /\ \E i \in Units :
           reply[i].kind = "bad_envelope" /\ responses[i] = Value("str", <<>>)

\* C7: guaranteed gate release.  Free slots plus slot holders is always
\* rate_limit, and once call_chatgpt_bulk has ended, by returning or by
\* raising, every slot is free.
C7_GateReleased ==
    /\ sem_value + Cardinality(Holders) = rate_limit
    /\ Ended => sem_value = rate_limit

\* C7 witness: a batch of two with two slots ended by raising: one unit
\* raised while it held a slot and the other was cancelled while it held one.
C7_Witness ==
    /\ bulk = "raised"
    /\ n = 2
    /\ rate_limit = 2
    /\ \E i \in Units : st[i] = "raised"
    /\ \E i \in Units : st[i] = "cancelled"
    /\ sem_value = rate_limit

\* C8: structured completion.  When control has left call_chatgpt_bulk,
\* every unit has finished: returned a value, raised, or been cancelled.
C8_StructuredCompletion == Ended => \A i \in Units : st[i] \in Done

\* C8 witness: a batch ended by raising after it waited for a unit that had
\* to be cancelled while queued for the semaphore.
C8_Witness ==
    /\ bulk = "raised"
    /\ \E i \in Units : st[i] = "cancelled" /\ reply[i] = NoReply
    /\ \E i \in Units : st[i] = "completed"

\* C9: the per-unit state machine.  A unit moves Pending -> Dispatched ->
\* ResponseReceived or TransportFailed -> Sanitized -> Decoded -> Completed
\* (a summary is decoded as received), and a unit in TransportFailed goes on
\* to Decoded: Completed is the only state in which a unit ends.
UnitSteps ==
    {<<"pending", "waiting">>, <<"pending", "dispatched">>,
     <<"waiting", "granted">>, <<"granted", "dispatched">>,
     <<"dispatched", "received">>, <<"dispatched", "failed">>,
     <<"received", "sanitized">>, <<"received", "decoded">>,
     <<"failed", "decoded">>, <<"sanitized", "decoded">>,
     <<"decoded", "completed">>}

C9_UnitStateMachine ==
    [][\A i \in Units : st'[i] # st[i] => <<st[i], st'[i]>> \in UnitSteps]_vars

\* C10: the sanitizer is total.  _postprocess_json_string returns a text
\* and never raises, whatever the raw text.
C10_SanitizerTotal == clean.done => ~clean.raised

\* C11: the decode stage is total.  Applied to any sanitized response text,
\* the two-attempt parse never raises: it ends after at most two attempts
\* with the value a parser gave or, when both failed, with the pipeline's
\* empty default ({} for ACAPS, [] for OHCHR).
C11_DecodeTotal ==
    /\ Len(attempts) = Len(Parsers) => decoded.done
    /\ decoded.done =>
           /\ ~decoded.raised
           /\ decoded.value = DecodeText(pipeline, clean.value)
           /\ \/ /\ attempts[Len(attempts)].ok
                 /\ decoded.value.type # "none"
              \/ /\ \A k \in 1..Len(attempts) : ~attempts[k].ok
                 /\ decoded.value = EmptyDefault(pipeline)

\* C11 witness: an OHCHR text with a control character in it was given to
\* both parsers, both failed, and the decode gave [].
C11_Witness ==
    /\ pipeline = "ohchr"
    /\ decoded.done
    /\ \E k \in 1..Len(clean.value) : clean.value[k] = "BEL"
    /\ Len(attempts) = 2
    /\ \A k \in 1..2 : ~attempts[k].ok
    /\ decoded.value = Value("list", <<"[", "]">>)

\* C12: the fallback order is fixed.  literal_eval is tried first; json.loads
\* is tried only when literal_eval failed, and on the very text the
\* sanitizer returned; the empty default is taken only after both failed; a
\* value given by literal_eval is what the decode returns.
C12_FallbackOrder ==
    /\ Len(attempts) <= 2
    /\ \A k \in 1..Len(attempts) : attempts[k].text = clean.value
    /\ Len(attempts) >= 1 => attempts[1].parser = "literal_eval"
    /\ Len(attempts) >= 2 =>
           /\ attempts[2].parser = "json.loads"
           /\ ~attempts[1].ok
    /\ (Len(attempts) >= 1 /\ attempts[1].ok) =>
           /\ Len(attempts) = 1
           /\ decoded.done
           /\ LET a == literal_eval(clean.value) IN
              decoded.value = Value(a.type, a.repr)
    /\ (decoded.done /\ ~attempts[Len(attempts)].ok) =>
           /\ Len(attempts) = 2
           /\ ~json_loads(clean.value).ok

\* C12 witness: literal_eval failed on null, json.loads was then given the
\* same text and its value, None, is what the decode returned.
C12_Witness ==
    /\ clean.value = Null
    /\ Len(attempts) = 2
    /\ ~attempts[1].ok
    /\ attempts[2] = [parser |-> "json.loads", text |-> Null, ok |-> TRUE]
    /\ decoded.done
    /\ decoded.value = Value("NoneType", <<"N", "o", "n", "e">>)

\* C13: the sanitizer is idempotent.  Applied to a text it returned,
\* _postprocess_json_string of either pipeline returns that text unchanged.
C13_SanitizerIdempotent ==
    reclean.done => (~reclean.raised /\ reclean.value = clean.value)

\* C14: the summary kind performs no structural decode.  The value of a
\* summary unit is its response text itself, unchanged and of type str,
\* whatever the text looks like; a unit without content has the sentinel
\* text as its value.
C14_SummaryNotDecoded ==
    response_type = "summary" =>
        /\ \A i \in Units : st[i] \in {"decoded", "completed"} =>
               /\ result[i] = Value("str", output_text[i])
               /\ reply[i].kind = "content" => output_text[i] = reply[i].text
        /\ bulk = "returned" =>
               \A i \in Units : responses[i] = Value("str", output_text[i])

\* C14 witness: a summary batch returned the text [1, 2] as a str at the
\* slot of one unit and the unclosed {"a" as a str at the slot of another.
C14_Witness ==
    /\ response_type = "summary"
    /\ bulk = "returned"
    /\ \E i, j \in Units :
           /\ reply[i] = [kind |-> "content", text |-> IntList]
           /\ responses[i] = Value("str", IntList)
           /\ reply[j] = [kind |-> "content", text |-> Unclosed]
           /\ responses[j] = Value("str", Unclosed)

\* C15: the shape of a decoded value.  Every value the extraction decode
\* gives is a mapping or a list (the empty default included), never a bare
\* number, string, tuple, set or None.
C15_DecodedShape ==
    (decoded.done /\ ~decoded.raised) => decoded.value.type \in {"dict", "list"}

\* The ids of a list that index an item of the row's list.
InRangeIds(list, ids) == SelectSeq(ids, LAMBDA id : InRange(list, id))

\* The ids the answer at slot i cites.
CitedIds(i) == IF pipeline = "acaps" THEN answers[i].ID ELSE answers[i]

\* Slot i cites an index outside its row's list of evidence items.
Dangling(i) ==
    \E k \in 1..Len(CitedIds(i)) : ~InRange(df[i].entries, CitedIds(i)[k])

\* C16: the join is robust.  Given an answer that cites an index outside its
\* row's evidence list, either joiner returns without raising, keeps the
\* items the in-range indices cite and drops the dangling reference.
C16_JoinRobust ==
    (joined.done /\ \E i \in 1..Len(answers) : Dangling(i)) =>
        /\ ~joined.raised
        /\ pipeline = "ohchr" =>
               \A i \in 1..Len(df) :
                   joined.value[i].Infos =
                       Cited(df[i].entries, InRangeIds(df[i].entries, answers[i]))
        /\ pipeline = "acaps" =>
               \A k \in 1..Len(joined.value) :
                   \E i \in 1..Len(df) : \E j \in 1..Len(df[i].entries) :
                       joined.value[k].Evidence = df[i].entries[j]

\* C17: the join correlates by position.  The number of prompts is the
\* number of rows and prompt i is built from row i; ACAPS: every record of
\* the answer to prompt i has the country of row i and evidence items of
\* row i, one record per cited index; OHCHR: the "Extracted Infos" of row i
\* are the items of row i at the indices of answers[i].
C17_PositionalJoin ==
    /\ Len(messages) = Len(df)
    /\ \A i \in 1..Len(df) : messages[i] = Prompt(df[i])
    /\ (joined.done /\ ~joined.raised) =>
           /\ pipeline = "acaps" =>
                  \A i \in 1..Len(answers) :
                      SelectSeq(joined.value, LAMBDA r : r.Text = i) =
                          [k \in 1..Len(answers[i].ID) |->
                              [Country |-> df[i].country,
                               Text |-> i,
                               Evidence |-> Item(df[i].entries, answers[i].ID[k])]]
           /\ pipeline = "ohchr" =>
                  /\ Len(joined.value) = Len(df)
                  /\ \A i \in 1..Len(df) :
                         joined.value[i] =
                             [Country |-> df[i].country,
                              Infos |-> Cited(df[i].entries, answers[i])]

\* C17 witness: an ACAPS join returned where the first slot was empty and
\* the second cited two items: its records have the second row's country
\* and evidence.
C17_Witness ==
    /\ pipeline = "acaps"
    /\ joined.done
    /\ ~joined.raised
    /\ Len(df) = 2
    /\ answers[1].len = 0
    /\ answers[2].ID = <<0, 1>>
    /\ joined.value =
           <<[Country |-> 2, Text |-> 2, Evidence |-> Entry(2, 0)],
             [Country |-> 2, Text |-> 2, Evidence |-> Entry(2, 1)]>>

\* C18: an empty answer yields no record and no failure.  The ACAPS join of
\* answers whose cited indices are all in range, each statement citing at
\* least one, returns without raising whichever slots are empty, every
\* slot empty included, and emits no record for an empty slot.
C18_EmptyAnswerSkipped ==
    (/\ pipeline = "acaps"
     /\ joined.done
     /\ \A i \in 1..Len(answers) :
            /\ ~Dangling(i)
            /\ answers[i].len > 0 => answers[i].ID # <<>>) =>
        /\ ~joined.raised
        /\ \A i \in 1..Len(answers) : answers[i].len = 0 =>
               \A k \in 1..Len(joined.value) : joined.value[k].Text # i

\* C19: the progress counter.  In a run with a progress bar the counter is
\* always the number of units that have finished (returned, raised or were
\* cancelled), so it never exceeds the batch length and is the batch length
\* when call_chatgpt_bulk has returned; no step decreases it, and a step
\* adds to it exactly the units that finished in that step.
C19_ProgressCounter ==
    /\ [](progress_bar # "none" =>
             /\ progress = Cardinality({i \in Units : st[i] \in Done})
             /\ progress <= n
             /\ bulk = "returned" => progress = n)
    /\ [][progress_bar # "none" =>
             /\ progress' >= progress
             /\ progress' - progress =
                    Cardinality({i \in Units : st[i] \notin Done /\ st'[i] \in Done})
             /\ \A i \in Units : st[i] \in Done => st'[i] = st[i]]_vars

\* C19 witness: a batch of three with a progress bar ended by raising; one
\* unit had returned, one had raised and one was cancelled, and the counter
\* is three.
C19_Witness ==
    /\ progress_bar # "none"
    /\ bulk = "raised"
    /\ n = 3
    /\ progress = 3
    /\ \E i, j, k \in Units :
           st[i] = "completed" /\ st[j] = "raised" /\ st[k] = "cancelled"

\* C20: a single shared client session.  The one session of a run is open
\* as long as a unit has not finished, so every POST is issued and awaited
\* on an open session; it is closed exactly when call_chatgpt_bulk has
\* ended, by returning or by raising.
C20_SharedSession ==
    /\ session \in {"open", "closed"}
    /\ (\E i \in Units : st[i] \notin Done) => session = "open"
    /\ session = "closed" <=> Ended

\* C20 witness: on the failure path, a batch with two calls in flight ended
\* by raising: one unit raised, the other was cancelled while its POST was
\* awaited, and the session was closed after both.
C20_Witness ==
    /\ bulk = "raised"
    /\ session = "closed"
    /\ rate_limit = 2
    /\ n = 2
    /\ \E i, j \in Units :
           /\ st[i] = "raised"
           /\ st[j] = "cancelled"
           /\ reply[j] = NoReply

\* C27: the progress bar is closed.  When control has left
\* call_chatgpt_bulk, by returning or by raising, a progress bar that was
\* created has been closed.
C27_ProgressBarClosed == (Ended /\ progress_bar # "none") => progress_bar = "closed"

\* The steps a unit has left before it is done, at most.
StepsLeft(state) ==
    CASE state = "pending" -> 7
      [] state = "waiting" -> 6
      [] state = "granted" -> 5
      [] state = "dispatched" -> 4
      [] state \in {"received", "failed"} -> 3
      [] state = "sanitized" -> 2
      [] state = "decoded" -> 1
      [] OTHER -> 0

RECURSIVE UnitsLeft(_)
UnitsLeft(k) == IF k = 0 THEN 0 ELSE StepsLeft(st[k]) + UnitsLeft(k - 1)

\* The steps call_chatgpt_bulk has left before it has ended, at most.
BulkLeft ==
    UnitsLeft(n) + (CASE bulk = "gather" -> 2 [] bulk = "aborting" -> 1 [] OTHER -> 0)

\* C22: batch termination, in finite-run form.  Every step of a run brings
\* call_chatgpt_bulk nearer to its end, so no run goes on forever, and a
\* unit that waits for a slot of the semaphore stays queued until it is
\* granted one: it leaves the queue in no other way.
C22_BatchTerminates ==
    [][/\ BulkLeft' < BulkLeft
       /\ \A i \in Units :
              st[i] = "waiting" => st'[i] \in {"waiting", "granted"}]_vars

Min(S) == CHOOSE k \in S : \A m \in S : k <= m

\* C23: bracket extraction.  A text with neither "{" nor "[" is returned
\* unchanged; otherwise the opener that occurs first selects the kind and,
\* when a closing bracket of that kind follows that opener, the result is
\* the text from that opener through the first such closing bracket.
C23_BracketExtraction ==
    part.done =>
        LET Openers == {k \in 1..Len(raw) : raw[k] \in {"{", "["}} IN
        IF Openers = {}
        THEN ~part.raised /\ part.value = raw
        ELSE LET first == Min(Openers)
                 closer == IF raw[first] = "{" THEN "}" ELSE "]"
                 Closers == {k \in (first + 1)..Len(raw) : raw[k] = closer}
             IN  Closers # {} =>
                     /\ ~part.raised
                     /\ part.value = SubSeq(raw, first, Min(Closers))

\* The extraction cut the text: it dropped what stands before the first
\* opener or after the first closing bracket that follows it.
C23_Witness ==
    /\ part.done
    /\ ~part.raised
    /\ part.value # raw
    /\ Len(part.value) >= 2
    /\ part.value[1] \in {"{", "["}

\* C24: missing-comma repair.  Of two double-quoted tokens separated only by
\* whitespace, _add_comma_between_quotes makes the two tokens with a comma
\* between the closing quote of the first and the opening quote of the
\* second, their contents unchanged.
C24_CommaBetweenTokens ==
    part.done =>
        \A x \in Contents, y \in Contents, w \in Gaps :
            raw = QuotedPair(x, w, y) =>
                \E k \in 0..Len(w) :
                    part.value = Quoted(x) \o SubSeq(w, 1, k) \o <<",">>
                                     \o SubSeq(w, k + 1, Len(w)) \o Quoted(y)

\* C26: the two sanitizers return the same text, or both raise, for every
\* raw response text.
C26_SameSanitizer ==
    (clean.done /\ other.done) =>
        /\ clean.raised = other.raised
        /\ clean.value = other.value

\* C25: a response text that is a well-formed flat JSON object, with nothing
\* around it, is sanitized and decoded by the ACAPS pipeline to the object
\* that parsing the original text gives.
C25_WellFormedSurvives ==
    (pipeline = "acaps" /\ raw \in FlatObjects /\ decoded.done) =>
        \E original \in {json_loads(raw)} :
            /\ original.ok
            /\ ~decoded.raised
            /\ decoded.value = Value(original.type, original.repr)

\* The sentences of a group are consecutive sentences of the list.
Consecutive(group) ==
    \A k \in 1..(Len(group) - 1) : group[k + 1] = group[k] + 1

\* C29: full coverage of the sentence groups.  For a step of 2 or more,
\* every sentence of the list is in at least one returned group, every group
\* is a run of at most step consecutive sentences, and every group but the
\* first starts with the last sentence of the group before it.
C29_FullCoverage ==
    (grouping.returned /\ grouping.step >= 2) =>
        LET groups == grouping.result IN
        /\ \A k \in 1..Len(grouping.lst) :
               \E g \in 1..Len(groups) : \E j \in 1..Len(groups[g]) :
                   groups[g][j] = grouping.lst[k]
        /\ \A g \in 1..Len(groups) :
               /\ Len(groups[g]) <= grouping.step
               /\ Consecutive(groups[g])
        /\ \A g \in 2..Len(groups) :
               groups[g][1] = groups[g - 1][Len(groups[g - 1])]

\* C30: the sentence grouping terminates for every list and every step of 1
\* or more: the body of its loop runs once per group at the most, which is
\* never more often than the list has sentences.
C30_GroupingTerminates == grouping.iterations <= Len(grouping.lst)

\* C21: a failure while generate_summaries processes one country is handled
\* and the loop goes on: when the run has ended, every country of the run
\* has been processed, whatever happened to the countries before it.
C21_ContinuesAfterFailure ==
    acaps_job.state \in {"returned", "raised"} =>
        \A k \in 1..acaps_job.countries : acaps_job.outcome[k] # "todo"

\* C28: resume safety of the OHCHR job.  A country that a run skips because
\* its results file exists has results for every indicator in that file.
C28_ResumeSafe ==
    \A c \in ohchr_job.skipped : ohchr_job.files[c] = MaxIndicators
====
